---------------------------- MODULE Spec2Model ----------------------------
(***************************************************************************)
(* DiaWell: the /predict pipeline of src/app.py (form parsing, validation, *)
(* default substitution, clamping, classifier invocation, persistence) and *)
(* the process start-up around it.                                         *)
(*                                                                         *)
(* Python values are tagged records.  A str is a sequence of one-character *)
(* strings.  A finite float is the exact decimal fraction n/d, d a power   *)
(* of ten, in lowest decimal form; floats also have nan, inf and -inf.     *)
(***************************************************************************)
EXTENDS Integers, Sequences, FiniteSets, TLC

VARIABLES proc, model, patients, req, listing

vars == <<proc, model, patients, req, listing>>

---------------------------------------------------------------------------
(* Python values *)

None == [t |-> "None"]

Str(s) == [t |-> "str", s |-> s]

PyInt(v) == [t |-> "int", k |-> "fin", n |-> v, d |-> 1]

PyFloat(n, d) == [t |-> "float", k |-> "fin", n |-> n, d |-> d]

NaN == [t |-> "float", k |-> "nan", n |-> 0, d |-> 1]

PosInf == [t |-> "float", k |-> "inf", n |-> 0, d |-> 1]

NegInf == [t |-> "float", k |-> "ninf", n |-> 0, d |-> 1]

\* a < b on Python numbers (int or float); every comparison with nan is False
PyLt(a, b) ==
    IF a.k = "nan" \/ b.k = "nan" THEN FALSE
    ELSE IF a.k = "inf" THEN FALSE
    ELSE IF b.k = "ninf" THEN FALSE
    ELSE IF a.k = "ninf" \/ b.k = "inf" THEN TRUE
    ELSE a.n * b.d < b.n * a.d

\* bool(x) of a Python number or None, as `x or y` tests it
Truthy(x) ==
    IF x.t = "None" THEN FALSE
    ELSE IF x.k = "fin" THEN x.n # 0
    ELSE TRUE

\* x or y
PyOr(x, y) == IF Truthy(x) THEN x ELSE y

\* min(a, b): the first argument unless the second is smaller
PyMin(a, b) == IF PyLt(b, a) THEN b ELSE a

\* max(a, b): the first argument unless the second is larger
PyMax(a, b) == IF PyLt(a, b) THEN b ELSE a

\* an element of np.array([...], dtype=float)
AsFloat(x) == IF x.t = "int" THEN PyFloat(x.n, 1) ELSE x

---------------------------------------------------------------------------
(* int(str) and float(str) *)

Digits == {"0", "1", "2", "3", "4", "5", "6", "7", "8", "9"}

DigitVal ==
    [c \in Digits |->
        CASE c = "0" -> 0 [] c = "1" -> 1 [] c = "2" -> 2 [] c = "3" -> 3
          [] c = "4" -> 4 [] c = "5" -> 5 [] c = "6" -> 6 [] c = "7" -> 7
          [] c = "8" -> 8 [] c = "9" -> 9]

RECURSIVE LStrip(_)
LStrip(s) == IF s # <<>> /\ Head(s) = " " THEN LStrip(Tail(s)) ELSE s

RECURSIVE RStrip(_)
RStrip(s) ==
    IF s # <<>> /\ s[Len(s)] = " " THEN RStrip(SubSeq(s, 1, Len(s) - 1)) ELSE s

Strip(s) == RStrip(LStrip(s))

HasSign(s) == s # <<>> /\ Head(s) \in {"+", "-"}

Unsigned(s) == IF HasSign(s) THEN Tail(s) ELSE s

Negative(s) == s # <<>> /\ Head(s) = "-"

AllDigits(s) == \A i \in 1..Len(s) : s[i] \in Digits

RECURSIVE DigitsValue(_)
DigitsValue(s) ==
    IF s = <<>> THEN 0
    ELSE 10 * DigitsValue(SubSeq(s, 1, Len(s) - 1)) + DigitVal[s[Len(s)]]

RECURSIVE Pow10(_)
Pow10(k) == IF k = 0 THEN 1 ELSE 10 * Pow10(k - 1)

\* int(s) does not raise ValueError
IntLiteral(s) ==
    LET u == Unsigned(Strip(s)) IN u # <<>> /\ AllDigits(u)

IntOf(s) ==
    LET b == Strip(s)
        v == DigitsValue(Unsigned(b))
    IN  PyInt(IF Negative(b) THEN 0 - v ELSE v)

DotAt(u) == IF \E i \in 1..Len(u) : u[i] = "."
            THEN CHOOSE i \in 1..Len(u) : u[i] = "." /\ \A j \in 1..(i - 1) : u[j] # "."
            ELSE 0

IntPart(u) == IF DotAt(u) = 0 THEN u ELSE SubSeq(u, 1, DotAt(u) - 1)

FracPart(u) == IF DotAt(u) = 0 THEN <<>> ELSE SubSeq(u, DotAt(u) + 1, Len(u))

RECURSIVE DropTrailingZeros(_)
DropTrailingZeros(s) ==
    IF s # <<>> /\ s[Len(s)] = "0"
    THEN DropTrailingZeros(SubSeq(s, 1, Len(s) - 1)) ELSE s

DecimalLiteral(u) ==
    /\ AllDigits(IntPart(u))
    /\ AllDigits(FracPart(u))
    /\ Len(IntPart(u)) + Len(FracPart(u)) > 0

SpecialFloat(u) ==
    u \in {<<"n", "a", "n">>, <<"i", "n", "f">>,
           <<"i", "n", "f", "i", "n", "i", "t", "y">>}

\* float(s) does not raise ValueError
FloatLiteral(s) ==
    LET u == Unsigned(Strip(s)) IN SpecialFloat(u) \/ DecimalLiteral(u)

FloatOf(s) ==
    LET b == Strip(s)
        u == Unsigned(b)
        f == DropTrailingZeros(FracPart(u))
        v == DigitsValue(IntPart(u) \o f)
    IN  IF u = <<"n", "a", "n">> THEN NaN
        ELSE IF SpecialFloat(u) THEN (IF Negative(b) THEN NegInf ELSE PosInf)
        ELSE PyFloat(IF Negative(b) THEN 0 - v ELSE v, Pow10(Len(f)))

\* cast(val) raises
CastRaises(cast, s) ==
    IF cast = "int" THEN ~IntLiteral(s) ELSE ~FloatLiteral(s)

Cast(cast, s) == IF cast = "int" THEN IntOf(s) ELSE FloatOf(s)

\* def to_number(val, cast=int, default=None)
to_number(val, cast, default) ==
    IF val = Str(<<>>) \/ val = None THEN default
    ELSE IF CastRaises(cast, val.s) THEN default
    ELSE Cast(cast, val.s)

---------------------------------------------------------------------------
(* configuration tables *)

FieldNames ==
    {"pregnancies", "age", "glucose", "bloodpressure", "skinthickness",
     "insulin", "bmi", "dpf"}

RANGES ==
    [pregnancies   |-> <<PyInt(0), PyInt(20)>>,
     age           |-> <<PyInt(1), PyInt(120)>>,
     glucose       |-> <<PyInt(20), PyInt(500)>>,
     bloodpressure |-> <<PyInt(20), PyInt(200)>>,
     skinthickness |-> <<PyInt(5), PyInt(100)>>,
     insulin       |-> <<PyInt(0), PyInt(900)>>,
     bmi           |-> <<PyFloat(10, 1), PyFloat(70, 1)>>,
     dpf           |-> <<PyFloat(0, 1), PyFloat(3, 1)>>]

\* DEFAULTS with dpf at the data set's mean instead of the low-risk value
DEFAULTS_mean ==
    [pregnancies   |-> PyInt(0),
     skinthickness |-> PyInt(10),
     dpf           |-> PyFloat(5, 10)]

DEFAULTS ==
    [pregnancies   |-> PyInt(0),
     skinthickness |-> PyInt(10),
     dpf           |-> PyFloat(2, 10)]

\* def clamp(name, val)
clamp(name, val) ==
    IF val = None THEN val
    ELSE LET lo == RANGES[name][1]
             hi == RANGES[name][2]
         IN  PyMax(lo, PyMin(hi, val))

---------------------------------------------------------------------------
(* the classifier artifact: whatever object diabetes_model.pkl unpickles to *)

\* the decimal fraction n/d in lowest decimal form
RECURSIVE Dec(_, _)
Dec(n, d) == IF d > 1 /\ n % 10 = 0 THEN Dec(n \div 10, d \div 10) ELSE PyFloat(n, d)

Classifiers == {"logreg", "relabelled", "oneclass", "strict", "nopredict"}

\* the module global `model` before line 10 has bound it
Unbound == "unbound"

\* the value of feature i of X, rounded down to an integer
FloorOf(X, i) == X[i].n \div X[i].d

\* the positive-class probability of X under a stand-in for the fitted
\* coefficients (the repository holds neither diabetes.csv nor the pickle):
\* it grows with glucose (feature 2) and bmi (feature 6)
PositiveProba(X) ==
    LET z == 2 * FloorOf(X, 2) + 3 * FloorOf(X, 6)
    IN  IF z < 0 THEN Dec(53, 1000000)
        ELSE IF z > 1200 THEN Dec(999953, 1000000)
        ELSE Dec(830 * z + 53, 1000000)

Complement(p) == Dec(p.d - p.n, p.d)

\* model.predict_proba(features)[0]: the row of class probabilities, or raises
predict_proba(m, X) ==
    CASE m \notin Classifiers -> [raises |-> TRUE, val |-> <<>>]
      [] m = "oneclass" -> [raises |-> FALSE, val |-> <<PyFloat(1, 1)>>]
      [] m = "strict" /\ FloorOf(X, 2) > 400 -> [raises |-> TRUE, val |-> <<>>]
      [] OTHER -> [raises |-> FALSE,
                   val |-> <<Complement(PositiveProba(X)), PositiveProba(X)>>]

\* model.predict(features)[0]: the predicted class, or raises
predict_class(m, X) ==
    LET positive == PyLt(PyFloat(5, 10), PositiveProba(X)) IN
    CASE m \notin Classifiers \/ m = "nopredict" -> [raises |-> TRUE, val |-> 0]
      [] m = "relabelled" -> [raises |-> FALSE, val |-> IF positive THEN 2 ELSE 1]
      [] m = "oneclass" -> [raises |-> FALSE, val |-> 0]
      [] OTHER -> [raises |-> FALSE, val |-> IF positive THEN 1 ELSE 0]

---------------------------------------------------------------------------
(* the /predict handler *)

\* request.form.get(key, default): the first value submitted under key
RECURSIVE Get(_, _, _)
Get(form, key, default) ==
    IF form = <<>> THEN default
    ELSE IF Head(form)[1] = key THEN Str(Head(form)[2])
    ELSE Get(Tail(form), key, default)

\* the handler's frame before its first statement
Frame(form) ==
    [pc |-> "start", form |-> form, name |-> None,
     age |-> None, glucose |-> None, bloodpressure |-> None, insulin |-> None,
     bmi |-> None, pregnancies |-> None, skinthickness |-> None, dpf |-> None,
     missing |-> <<>>, features |-> <<>>, calls |-> <<>>,
     prob_pos |-> None, pred |-> None, result |-> None, resp |-> None]

Idle == [Frame(<<>>) EXCEPT !.pc = "idle"]

\* lines 77-87: the locals read from the form
predict_read(q) ==
    [q EXCEPT
       !.name = Get(q.form, "name", Str(<<"U", "n", "k", "n", "o", "w", "n">>)),
       !.age = to_number(Get(q.form, "age", None), "int", None),
       !.glucose = to_number(Get(q.form, "glucose", None), "int", None),
       !.bloodpressure = to_number(Get(q.form, "bloodpressure", None), "int", None),
       !.insulin = to_number(Get(q.form, "insulin", None), "int", None),
       !.bmi = to_number(Get(q.form, "bmi", None), "float", None),
       !.pregnancies =
           to_number(Get(q.form, "pregnancies", None), "int", DEFAULTS["pregnancies"]),
       !.skinthickness =
           to_number(Get(q.form, "skinthickness", None), "int", DEFAULTS["skinthickness"]),
       !.dpf = to_number(Get(q.form, "dpf", None), "float", DEFAULTS["dpf"])]

\* line 90: the keys of the dict `required`, in insertion order
required == <<"age", "glucose", "bloodpressure", "insulin", "bmi">>

\* line 91 written `if not v`
missing_falsy(q) == SelectSeq(required, LAMBDA k : ~Truthy(q[k]))

\* line 91
missing(q) == SelectSeq(required, LAMBDA k : q[k] = None)

\* lines 92-93
BadRequest(names) == [status |-> 400, missing |-> names]

\* lines 96-103
predict_clamp(q) ==
    [q EXCEPT
       !.pregnancies = clamp("pregnancies", PyOr(q.pregnancies, DEFAULTS["pregnancies"])),
       !.age = clamp("age", q.age),
       !.glucose = clamp("glucose", q.glucose),
       !.bloodpressure = clamp("bloodpressure", q.bloodpressure),
       !.skinthickness =
           clamp("skinthickness", PyOr(q.skinthickness, DEFAULTS["skinthickness"])),
       !.insulin = clamp("insulin", q.insulin),
       !.bmi = clamp("bmi", q.bmi),
       !.dpf = clamp("dpf", PyOr(q.dpf, DEFAULTS["dpf"]))]

\* line 106 with age and dpf in each other's place
features_swapped(q) ==
    <<AsFloat(q.pregnancies), AsFloat(q.glucose), AsFloat(q.bloodpressure),
      AsFloat(q.skinthickness), AsFloat(q.insulin), AsFloat(q.bmi),
      AsFloat(q.age), AsFloat(q.dpf)>>

\* line 106
features(q) ==
    <<AsFloat(q.pregnancies), AsFloat(q.glucose), AsFloat(q.bloodpressure),
      AsFloat(q.skinthickness), AsFloat(q.insulin), AsFloat(q.bmi),
      AsFloat(q.dpf), AsFloat(q.age)>>

\* lines 77-106: up to the feature vector, or the 400 response
predict_validate(q0) ==
    LET q == predict_read(q0)
        c == predict_clamp(q)
    IN  IF missing(q) # <<>>
        THEN [q EXCEPT !.missing = missing(q), !.resp = BadRequest(missing(q)),
                       !.pc = "done"]
        ELSE [c EXCEPT !.features = features(c), !.pc = "score"]

\* line 114
ServerError == [status |-> 500, message |-> "Model prediction error"]

\* line 116 written `if pred`
result_truthy(pred) == IF pred # 0 THEN "Diabetes Risk" ELSE "No Risk"

\* line 116
result(pred) == IF pred = 1 THEN "Diabetes Risk" ELSE "No Risk"

\* what Flask answers when a handler lets an exception escape
Unhandled == [status |-> 500, message |-> "Internal Server Error"]

\* lines 109-116 with model.predict called after the try block
predict_score_uncaught(q, m) ==
    IF predict_proba(m, q.features).raises \/ Len(predict_proba(m, q.features).val) < 2
    THEN [q EXCEPT !.calls = <<[fn |-> "predict_proba", X |-> q.features]>>,
                   !.resp = ServerError, !.pc = "done"]
    ELSE IF predict_class(m, q.features).raises
    THEN [q EXCEPT !.calls = <<[fn |-> "predict_proba", X |-> q.features],
                               [fn |-> "predict", X |-> q.features]>>,
                   !.prob_pos = predict_proba(m, q.features).val[2],
                   !.resp = Unhandled, !.pc = "done"]
    ELSE [q EXCEPT !.calls = <<[fn |-> "predict_proba", X |-> q.features],
                               [fn |-> "predict", X |-> q.features]>>,
                   !.prob_pos = predict_proba(m, q.features).val[2],
                   !.pred = predict_class(m, q.features).val,
                   !.result = result(predict_class(m, q.features).val),
                   !.pc = "save"]

\* lines 109-116: the try block around the two classifier calls
predict_score(q, m) ==
    LET pp == predict_proba(m, q.features)
        pc == predict_class(m, q.features)
        call1 == <<[fn |-> "predict_proba", X |-> q.features]>>
        call2 == <<[fn |-> "predict", X |-> q.features]>>
    IN  IF pp.raises \/ Len(pp.val) < 2
        THEN [q EXCEPT !.calls = call1, !.resp = ServerError, !.pc = "done"]
        ELSE IF pc.raises
        THEN [q EXCEPT !.calls = call1 \o call2, !.prob_pos = pp.val[2],
                       !.resp = ServerError, !.pc = "done"]
        ELSE [q EXCEPT !.calls = call1 \o call2, !.prob_pos = pp.val[2],
                       !.pred = pc.val, !.result = result(pc.val), !.pc = "save"]

\* lines 121-124 with the values of age and pregnancies in each other's place
Row_swapped(q, db) ==
    [id |-> Len(db) + 1, name |-> q.name, age |-> q.pregnancies,
     pregnancies |-> q.age, glucose |-> q.glucose,
     bloodpressure |-> q.bloodpressure, skinthickness |-> q.skinthickness,
     insulin |-> q.insulin, bmi |-> q.bmi, dpf |-> q.dpf,
     probability |-> q.prob_pos, prediction |-> q.result]

\* lines 121-124: the row INSERTed, with the id AUTOINCREMENT gives it
Row(q, db) ==
    [id |-> Len(db) + 1, name |-> q.name, age |-> q.age,
     pregnancies |-> q.pregnancies, glucose |-> q.glucose,
     bloodpressure |-> q.bloodpressure, skinthickness |-> q.skinthickness,
     insulin |-> q.insulin, bmi |-> q.bmi, dpf |-> q.dpf,
     probability |-> q.prob_pos, prediction |-> q.result]

\* round(x, 4) of a probability; a tie goes to the even digit
round4(x) ==
    IF x.d <= 10000 THEN x
    ELSE LET s == x.d \div 10000
             lo == x.n \div s
             rem == x.n % s
             up == 2 * rem > s \/ (2 * rem = s /\ lo % 2 = 1)
         IN  Dec(IF up THEN lo + 1 ELSE lo, 10000)

\* lines 129-132: what result.html is rendered with
Rendered(q) ==
    [status |-> 200, name |-> q.name, result |-> q.result,
     probability |-> round4(q.prob_pos),
     inputs |-> [pregnancies |-> q.pregnancies, age |-> q.age,
                 glucose |-> q.glucose, bloodpressure |-> q.bloodpressure,
                 skinthickness |-> q.skinthickness, insulin |-> q.insulin,
                 bmi |-> q.bmi, dpf |-> q.dpf]]

\* lines 119-126: the table after the handler's INSERT and commit
Inserted(q, db) == Append(db, Row(q, db))

\* lines 119-132: the frame after the INSERT and the render
predict_save(q) == [q EXCEPT !.resp = Rendered(q), !.pc = "done"]

\* the frame and the table after lines 118-132, if the handler got that far
predict_finish(s, db) ==
    IF s.pc = "save"
    THEN [q |-> predict_save(s), db |-> Inserted(s, db)]
    ELSE [q |-> s, db |-> db]

\* the frame after lines 108-116, if the handler got that far
predict_try(v, m) == IF v.pc = "score" THEN predict_score(v, m) ELSE v

\* lines 75-132 run to the end on one thread: the final frame and the table
predict(q0, m, db) == predict_finish(predict_try(predict_validate(q0), m), db)

\* lines 138-141: SELECT * FROM patients ORDER BY id DESC
RECURSIVE Reverse(_)
Reverse(s) == IF s = <<>> THEN <<>> ELSE Append(Reverse(Tail(s)), Head(s))

---------------------------------------------------------------------------
(* submitted forms *)

NumRequests == 2

Requests == 1..NumRequests

FormKeys ==
    <<"name", "age", "glucose", "bloodpressure", "insulin", "bmi",
      "pregnancies", "skinthickness", "dpf">>

\* the form with the fields of keys, in that order, that vals gives a value
MakeForm(keys, vals) ==
    LET sent == SelectSeq(keys, LAMBDA k : vals[k] # None)
    IN  [i \in 1..Len(sent) |-> <<sent[i], vals[sent[i]].s>>]

T(s) == Str(s)

\* the values tried for each field of a form
FieldValues ==
    [name          |-> {T(<<"A", "n", "n">>)},
     age           |-> {None, T(<<"4", "5">>), T(<<"0">>)},
     glucose       |-> {T(<<>>), T(<<"1", "8", "0">>), T(<<"9", "9", "9", "9">>)},
     bloodpressure |-> {T(<<"a", "b", "c">>), T(<<"9", "0">>), T(<<"-", "5">>)},
     insulin       |-> {T(<<"1", ".", "5">>), T(<<"0">>), T(<<"1", "2", "0">>),
                        T(<<" ", "+", "7", " ">>)},
     bmi           |-> {T(<<>>), T(<<"3", "2", ".", "5">>), T(<<"n", "a", "n">>),
                        T(<<"9", ".", "9", "9">>)},
     pregnancies   |-> {None, T(<<"0">>), T(<<"2", ".", "5">>), T(<<"2", "5">>)},
     skinthickness |-> {T(<<>>), T(<<"0">>), T(<<"4">>), T(<<"2", "0">>)},
     dpf           |-> {None, T(<<"0", ".", "0">>), T(<<"0", ".", "5">>),
                        T(<<"i", "n", "f">>), T(<<"-", ".", "5">>)}]

KeyOrders == {FormKeys, Reverse(FormKeys)}

FieldChoices ==
    [name : FieldValues.name, age : FieldValues.age, glucose : FieldValues.glucose,
     bloodpressure : FieldValues.bloodpressure, insulin : FieldValues.insulin,
     bmi : FieldValues.bmi, pregnancies : FieldValues.pregnancies,
     skinthickness : FieldValues.skinthickness, dpf : FieldValues.dpf]

Forms == {MakeForm(keys, vals) : keys \in KeyOrders, vals \in FieldChoices}

\* {age:45, glucose:180, bloodpressure:90, insulin:120, bmi:32.5}, the rest blank
ExampleForm ==
    <<<<"name", <<"A", "n", "n">>>>, <<"age", <<"4", "5">>>>,
      <<"glucose", <<"1", "8", "0">>>>, <<"bloodpressure", <<"9", "0">>>>,
      <<"insulin", <<"1", "2", "0">>>>, <<"bmi", <<"3", "2", ".", "5">>>>,
      <<"skinthickness", <<>>>>>>

\* the forms of the runs with several requests
FewForms ==
    { ExampleForm,
      \* no name, glucose above its range, zeros in the optional fields
      <<<<"dpf", <<"0", ".", "0">>>>, <<"skinthickness", <<"0">>>>,
        <<"pregnancies", <<"0">>>>, <<"bmi", <<"4", "1">>>>,
        <<"insulin", <<"0">>>>, <<"bloodpressure", <<"7", "0">>>>,
        <<"glucose", <<"9", "9", "9", "9">>>>, <<"age", <<"6", "0">>>>>>,
      \* bloodpressure submitted twice, glucose empty, bmi absent
      <<<<"name", <<"B", "o">>>>, <<"age", <<"3", "0">>>>, <<"glucose", <<>>>>,
        <<"bloodpressure", <<"a", "b", "c">>>>, <<"bloodpressure", <<"8", "0">>>>,
        <<"insulin", <<"5", "0">>>>>>,
      \* a high-risk patient below the strict model's glucose limit
      <<<<"name", <<"C", "y">>>>, <<"age", <<"5", "0">>>>,
        <<"glucose", <<"3", "0", "0">>>>, <<"bloodpressure", <<"8", "5">>>>,
        <<"insulin", <<"2", "0", "0">>>>, <<"bmi", <<"4", "0", ".", "2", "5">>>>,
        <<"pregnancies", <<"2">>>>, <<"dpf", <<"1", ".", "5">>>>>> }

---------------------------------------------------------------------------
(* process start-up, lines 8-34 *)

\* line 10: pickle.load succeeds and binds the module global `model`
load_model ==
    /\ proc = "starting"
    /\ \E c \in Classifiers : model' = c
    /\ proc' = "loaded"
    /\ UNCHANGED <<patients, req, listing>>

\* lines 11-12 with the exception swallowed (`except: pass`)
load_model_swallowed ==
    /\ proc = "starting"
    /\ proc' = "loaded"
    /\ UNCHANGED <<model, patients, req, listing>>

\* lines 11-12: pickle.load raises; the import dies with RuntimeError
load_model_raises ==
    /\ proc = "starting"
    /\ proc' = "crashed"
    /\ UNCHANGED <<model, patients, req, listing>>

\* lines 15-34: CREATE TABLE IF NOT EXISTS, then the routes are served
init_db ==
    /\ proc = "loaded"
    /\ proc' = "serving"
    /\ UNCHANGED <<model, patients, req, listing>>

---------------------------------------------------------------------------
(* requests *)

\* a POST /predict reaches the handler of request r
Submit(r, forms) ==
    /\ proc = "serving"
    /\ req[r].pc = "idle"
    /\ \E form \in forms : req' = [req EXCEPT ![r] = Frame(form)]
    /\ UNCHANGED <<proc, model, patients, listing>>

\* the handler of request r runs from its first line to its return
Handle(r) ==
    /\ proc = "serving"
    /\ req[r].pc = "start"
    /\ LET o == predict(req[r], model, patients)
       IN  /\ req' = [req EXCEPT ![r] = o.q]
           /\ patients' = o.db
    /\ UNCHANGED <<proc, model, listing>>

\* GET /records
records ==
    /\ proc = "serving"
    /\ listing' = [rows |-> Reverse(patients)]
    /\ UNCHANGED <<proc, model, patients, req>>

\* rows a previous run of the process left in diawell.db
OldRows ==
    <<[id |-> 1, name |-> Str(<<"O", "l", "d">>), age |-> PyInt(33),
       pregnancies |-> PyInt(1), glucose |-> PyInt(99), bloodpressure |-> PyInt(70),
       skinthickness |-> PyInt(10), insulin |-> PyInt(80), bmi |-> PyFloat(25, 1),
       dpf |-> PyFloat(2, 10), probability |-> PyFloat(3, 10),
       prediction |-> "No Risk"]>>

Init ==
    /\ proc = "starting"
    /\ model = Unbound
    /\ patients \in {<<>>, OldRows}
    /\ req = [r \in Requests |-> Idle]
    /\ listing = None

Quiet == \A r \in Requests : req[r].pc \in {"idle", "done"}

\* one request at a time
SubmitNext ==
    \E r \in Requests :
        /\ Quiet
        /\ \A p \in 1..(r - 1) : req[p].pc = "done"
        /\ Submit(r, FewForms)

HandleNext == \E r \in Requests : Handle(r)

Next ==
    \/ load_model
    \/ load_model_raises
    \/ init_db
    \/ SubmitNext
    \/ HandleNext
    \/ records

Spec == Init /\ [][Next]_vars

---------------------------------------------------------------------------
(* one request, over the whole table of form values *)

InitOne ==
    /\ proc = "serving"
    /\ model \in {"logreg", "strict"}
    /\ patients = <<>>
    /\ \E form \in Forms : req = [r \in Requests |-> IF r = 1 THEN Frame(form) ELSE Idle]
    /\ listing = None

NextOne == HandleNext

SpecOne == InitOne /\ [][NextOne]_vars

---------------------------------------------------------------------------
(* requests on concurrent threads: a handler is three steps, split where it
   reads the shared classifier and where it writes the shared table *)

\* lines 77-106 of request r
Validate(r) ==
    /\ req[r].pc = "start"
    /\ req' = [req EXCEPT ![r] = predict_validate(req[r])]
    /\ UNCHANGED <<proc, model, patients, listing>>

\* lines 108-116 with `features` a module global: the vector scored is the
\* one some request stored last
Score_shared(r) ==
    /\ req[r].pc = "score"
    /\ \E o \in Requests :
          /\ req[o].features # <<>>
          /\ req' = [req EXCEPT
                       ![r] = predict_score([req[r] EXCEPT !.features = req[o].features],
                                            model)]
    /\ UNCHANGED <<proc, model, patients, listing>>

\* lines 108-116 of request r
Score(r) ==
    /\ req[r].pc = "score"
    /\ req' = [req EXCEPT ![r] = predict_score(req[r], model)]
    /\ UNCHANGED <<proc, model, patients, listing>>

\* lines 118-132 of request r: one transaction, then the render
Save(r) ==
    /\ req[r].pc = "save"
    /\ patients' = Inserted(req[r], patients)
    /\ req' = [req EXCEPT ![r] = predict_save(req[r])]
    /\ UNCHANGED <<proc, model, listing>>

InitThreads ==
    /\ proc = "serving"
    /\ model \in Classifiers
    /\ patients \in {<<>>, OldRows}
    /\ req = [r \in Requests |-> Idle]
    /\ listing = None

SubmitAny == \E r \in Requests : Submit(r, FewForms)

ValidateAny == \E r \in Requests : Validate(r)

ScoreAny == \E r \in Requests : Score(r)

SaveAny == \E r \in Requests : Save(r)

NextThreads ==
    \/ SubmitAny
    \/ ValidateAny
    \/ ScoreAny
    \/ SaveAny
    \/ records

SpecThreads == InitThreads /\ [][NextThreads]_vars

---------------------------------------------------------------------------
(* what the properties below speak of *)

RequiredFields == {"age", "glucose", "bloodpressure", "insulin", "bmi"}

OptionalFields == {"pregnancies", "skinthickness", "dpf"}

DeclaredKind ==
    [pregnancies |-> "int", age |-> "int", glucose |-> "int",
     bloodpressure |-> "int", skinthickness |-> "int", insulin |-> "int",
     bmi |-> "float", dpf |-> "float"]

DeclaredDefault ==
    [pregnancies |-> PyInt(0), skinthickness |-> PyInt(10), dpf |-> PyFloat(2, 10)]

FeatureOrder ==
    <<"pregnancies", "glucose", "bloodpressure", "skinthickness", "insulin",
      "bmi", "dpf", "age">>

Done(r) == req[r].pc = "done"

Status(r) == req[r].resp.status

\* field k of the form is absent, empty, or not a literal of its declared kind
Unusable(form, k) ==
    \/ Get(form, k, None) = None
    \/ Get(form, k, None).s = <<>>
    \/ CastRaises(DeclaredKind[k], Get(form, k, None).s)

\* the number field k of the form denotes
Parsed(form, k) == Cast(DeclaredKind[k], Get(form, k, None).s)

\* the value of field k before clamping: the parsed one, or the default
Present(form, k) ==
    IF Unusable(form, k) /\ k \in OptionalFields THEN DeclaredDefault[k]
    ELSE Parsed(form, k)

Lo(k) == RANGES[k][1]

Hi(k) == RANGES[k][2]

NumEq(a, b) == a.k = "fin" /\ b.k = "fin" /\ a.n * b.d = b.n * a.d

Within(x, k) == x.k = "fin" /\ ~PyLt(x, Lo(k)) /\ ~PyLt(Hi(k), x)

\* either classifier call raises, or the probability row has no element 1
ClassifierFails(m, X) ==
    \/ predict_proba(m, X).raises
    \/ Len(predict_proba(m, X).val) < 2
    \/ predict_class(m, X).raises

IsPrefix(a, b) == Len(a) <= Len(b) /\ SubSeq(b, 1, Len(a)) = a

\* row is the record of the request whose final frame is q
RowOf(row, q) == [row EXCEPT !.id = 1] = Row(q, <<>>)

\* the rows a previous run left, as found in the table
Inherited == IF patients # <<>> /\ patients[1] = OldRows[1] THEN OldRows ELSE <<>>

\* the rows this run stored, without their ids
Stored == [i \in 1..(Len(patients) - Len(Inherited)) |->
              [patients[i + Len(Inherited)] EXCEPT !.id = 1]]

\* request r returns in this step
Returns(r) == req[r].pc # "done" /\ req'[r].pc = "done"

---------------------------------------------------------------------------
(* C1 *)

BadRequired(form) == {k \in RequiredFields : Unusable(form, k)}

\* C1: a finished /predict request has the validation error exactly when some
\* required field is absent, empty or not parsable as its kind, and the error
\* names exactly those fields, each once
C1_ValidationNamesAll ==
    \A r \in Requests : Done(r) =>
        /\ (Status(r) = 400) <=> (BadRequired(req[r].form) # {})
        /\ Status(r) = 400 =>
             /\ {req[r].resp.missing[i] : i \in 1..Len(req[r].resp.missing)}
                    = BadRequired(req[r].form)
             /\ Len(req[r].resp.missing) = Cardinality(BadRequired(req[r].form))

\* several required fields named at once, insulin "0" and an invalid optional
\* field not among them
C1_Witness ==
    \E r \in Requests :
        /\ Done(r) /\ Status(r) = 400
        /\ Len(req[r].resp.missing) >= 2
        /\ req[r].insulin = PyInt(0)
        /\ Get(req[r].form, "pregnancies", None) # None
        /\ Unusable(req[r].form, "pregnancies")

---------------------------------------------------------------------------
(* C2 *)

Saturated(q, k) ==
    /\ Within(q[k], k)
    /\ PyLt(Present(q.form, k), Lo(k)) => NumEq(q[k], Lo(k))
    /\ PyLt(Hi(k), Present(q.form, k)) => NumEq(q[k], Hi(k))
    /\ Within(Present(q.form, k), k) => NumEq(q[k], Present(q.form, k))

\* C2: for a validated request every field's normalized value lies in its
\* range: a value below lo became lo, a value above hi became hi, a value
\* inside the range is unchanged
C2_Clamped ==
    \A r \in Requests : (Done(r) /\ Status(r) # 400) =>
        \A k \in FieldNames : Saturated(req[r], k)

---------------------------------------------------------------------------
(* C3 *)

ExampleVector ==
    <<PyFloat(0, 1), PyFloat(180, 1), PyFloat(90, 1), PyFloat(10, 1),
      PyFloat(120, 1), PyFloat(325, 10), PyFloat(2, 10), PyFloat(45, 1)>>

\* C3: for a validated request an optional field that is absent, empty or
\* unparsable normalizes to its declared default, and the example input
\* normalizes to [0, 180, 90, 10, 120, 32.5, 0.2, 45]
C3_Defaults ==
    \A r \in Requests : (Done(r) /\ Status(r) # 400) =>
        /\ \A k \in OptionalFields :
               Unusable(req[r].form, k) => req[r][k] = DeclaredDefault[k]
        /\ req[r].form \in {ExampleForm, Reverse(ExampleForm)}
               => req[r].features = ExampleVector

C3_Witness ==
    \E r \in Requests :
        /\ Done(r) /\ Status(r) = 200
        /\ req[r].form = ExampleForm
        /\ req[r].resp.inputs.dpf = PyFloat(2, 10)

---------------------------------------------------------------------------
(* C4 *)

ClampOfZero(k) == IF PyLt(PyInt(0), Lo(k)) THEN Lo(k) ELSE PyInt(0)

\* C4: for a validated request an optional field whose value parses to zero
\* normalizes to the clamp of zero into its range, not to its default
C4_ZeroIsNotBlank ==
    \A r \in Requests : (Done(r) /\ Status(r) # 400) =>
        \A k \in OptionalFields :
            (~Unusable(req[r].form, k) /\ NumEq(Parsed(req[r].form, k), PyInt(0)))
                => NumEq(req[r][k], ClampOfZero(k))

---------------------------------------------------------------------------
(* C5 *)

\* the same submission with its fields in the order of FormKeys
Reordered(form) ==
    MakeForm(FormKeys,
             [k \in {FormKeys[i] : i \in 1..Len(FormKeys)} |-> Get(form, k, None)])

\* C5: the vector handed to the classifier has 8 components, position i
\* holding the normalized value of field FeatureOrder[i] whatever the order of
\* the fields in the form, and every classifier call of the request gets it
C5_FeatureOrder ==
    \A r \in Requests : (Done(r) /\ Status(r) # 400) =>
        /\ Len(req[r].features) = 8
        /\ \A i \in 1..8 : req[r].features[i] = AsFloat(req[r][FeatureOrder[i]])
        /\ req[r].features = predict_validate(Frame(Reordered(req[r].form))).features
        /\ req[r].calls # <<>>
        /\ \A i \in 1..Len(req[r].calls) : req[r].calls[i].X = req[r].features
        /\ Status(r) = 200 =>
             /\ Len(req[r].calls) = 2
             /\ \A i \in 1..8 :
                    req[r].features[i] = AsFloat(req[r].resp.inputs[FeatureOrder[i]])

\* a form sent in the reverse field order, scored by both calls
C5_Witness ==
    \E r \in Requests :
        /\ Done(r) /\ Status(r) = 200
        /\ req[r].form = Reverse(ExampleForm)
        /\ Len(req[r].calls) = 2
        /\ req[r].features[8] = PyFloat(45, 1)

---------------------------------------------------------------------------
(* C6 *)

\* C6: a scored request's label is "Diabetes Risk" exactly when the predicted
\* class is 1, and its record holds element 1 of the probability row for the
\* same features
C6_Verdict ==
    \A r \in Requests : (Done(r) /\ Status(r) = 200) =>
        /\ req[r].resp.result \in {"Diabetes Risk", "No Risk"}
        /\ (req[r].resp.result = "Diabetes Risk")
               <=> (predict_class(model, req[r].features).val = 1)
        /\ \E i \in 1..Len(patients) :
              /\ RowOf(patients[i], req[r])
              /\ patients[i].prediction = req[r].resp.result
              /\ patients[i].probability = predict_proba(model, req[r].features).val[2]

\* a positive label beside a probability under one half, and a negative label
\* beside one over it
C6_Witness ==
    /\ model = "relabelled"
    /\ \E r \in Requests :
          /\ Done(r) /\ Status(r) = 200
          /\ req[r].resp.result = "Diabetes Risk"
          /\ PyLt(req[r].prob_pos, PyFloat(5, 10))
    /\ \E r \in Requests :
          /\ Done(r) /\ Status(r) = 200
          /\ req[r].resp.result = "No Risk"
          /\ PyLt(PyFloat(5, 10), req[r].prob_pos)

---------------------------------------------------------------------------
(* C7 *)

C7_State ==
    \A r \in Requests : (Done(r) /\ Status(r) # 400) =>
        /\ proc = "serving"
        /\ ClassifierFails(model, req[r].features) => req[r].resp = ServerError
        /\ ~ClassifierFails(model, req[r].features) => Status(r) = 200

C7_Step ==
    \A r \in Requests :
        (Returns(r) /\ req'[r].resp.status = 500) =>
            /\ patients' = patients
            /\ proc' = "serving"

\* C7: a validated request whose classifier call fails ends with the scoring
\* error and its message, writes no record and leaves the process serving;
\* a request whose classifier calls succeed is answered normally
C7_ScoringError == []C7_State /\ [][C7_Step]_vars

\* a scoring error followed by a normally processed request
C7_Witness ==
    \E r1, r2 \in Requests :
        /\ r1 < r2
        /\ Done(r1) /\ Status(r1) = 500
        /\ Done(r2) /\ Status(r2) = 200
        /\ Stored = <<Row(req[r2], <<>>)>>

---------------------------------------------------------------------------
(* C8 *)

Passes(q, m) == BadRequired(q.form) = {} /\ ~ClassifierFails(m, q.features)

\* the record of a request: its name, its 8 normalized inputs as rendered and
\* as scored, its probability and its label
Recorded(row, q) ==
    /\ row.name = Get(q.form, "name", Str(<<"U", "n", "k", "n", "o", "w", "n">>))
    /\ \A i \in 1..8 :
          /\ row[FeatureOrder[i]] = q.resp.inputs[FeatureOrder[i]]
          /\ AsFloat(row[FeatureOrder[i]]) = q.features[i]
    /\ row.probability = predict_proba(model, q.features).val[2]
    /\ row.prediction = q.resp.result

C8_Step ==
    /\ IsPrefix(patients, patients')
    /\ Len(patients') <= Len(patients) + 1
    /\ \A r \in Requests : Returns(r) =>
          IF Passes(req'[r], model)
          THEN /\ Len(patients') = Len(patients) + 1
               /\ patients'[Len(patients')].id = Len(patients')
               /\ Recorded(patients'[Len(patients')], req'[r])
          ELSE patients' = patients
    /\ (\A r \in Requests : ~Returns(r)) => patients' = patients

\* C8: every step leaves the rows already in the table as they are; a request
\* that passes validation and scoring appends exactly one row holding its
\* name, normalized inputs, probability and label; any other request, and a
\* listing, append nothing
C8_Records == [][C8_Step]_vars

\* a kept old row, a stored request, a rejected request and a listing
C8_Witness ==
    /\ Len(patients) = 2
    /\ patients[1] = OldRows[1]
    /\ listing # None
    /\ listing.rows = <<patients[2], patients[1]>>
    /\ \E r1, r2 \in Requests :
          /\ Done(r1) /\ Status(r1) = 200 /\ RowOf(patients[2], req[r1])
          /\ Done(r2) /\ Status(r2) = 400

---------------------------------------------------------------------------
(* C9 *)

C9_State ==
    /\ (\E r \in Requests : req[r].pc # "idle") => (proc = "serving" /\ model \in Classifiers)
    /\ listing # None => (proc = "serving" /\ model \in Classifiers)
    /\ proc = "serving" => model \in Classifiers
    /\ proc = "crashed" => model = Unbound

C9_Step ==
    /\ proc = "crashed" => UNCHANGED vars
    /\ model # Unbound => model' = model

\* C9: no request is handled unless the classifier is loaded; a process whose
\* load failed stays dead; the classifier, once loaded, is never reassigned
C9_LoadOrDie == []C9_State /\ [][C9_Step]_vars

C9_Witness ==
    /\ proc = "crashed"
    /\ model = Unbound
    /\ \A r \in Requests : req[r] = Idle

---------------------------------------------------------------------------
(* C10 *)

\* the final frame of the same request run alone against the classifier
Alone(r) == predict(Frame(req[r].form), model, <<>>).q

Scored200 == {r \in Requests : Alone(r).resp.status = 200}

C10_State ==
    /\ \A r \in Requests : Done(r) => req[r] = Alone(r)
    /\ (\A r \in Requests : Done(r)) =>
          /\ Len(Stored) = Cardinality(Scored200)
          /\ \A r \in Scored200 :
                Cardinality({i \in 1..Len(Stored) : Stored[i] = Row(Alone(r), <<>>)})
                  = Cardinality({o \in Scored200 : Row(Alone(o), <<>>) = Row(Alone(r), <<>>)})

C10_Step ==
    \A r \in Requests : req'[r] # req[r] =>
        \A o \in Requests \ {r} : req'[o] = req[o]

\* C10: under any interleaving a finished request has the frame, response and
\* record it has when run alone; a step of one request leaves every other
\* request's frame as it is; once all have finished the table holds the rows
\* of a sequential run
C10_Isolation == []C10_State /\ [][C10_Step]_vars

\* two different requests, both stored, the later-numbered one first
C10_Witness ==
    \E r1, r2 \in Requests :
        /\ r1 < r2
        /\ Done(r1) /\ Status(r1) = 200
        /\ Done(r2) /\ Status(r2) = 200
        /\ req[r1].form # req[r2].form
        /\ \E i, j \in 1..Len(patients) :
              i < j /\ RowOf(patients[i], req[r2]) /\ RowOf(patients[j], req[r1])

===========================================================================
